---- MODULE Spec2Model ----
(***************************************************************************)
(* The offline cache manager (service worker) of the Bastelglueck site,    *)
(* src/SECURITY.md lines 53-277, as a state machine.  Every promise        *)
(* callback of a handler is one step: handlers interleave at the points    *)
(* where the code waits for the cache store or the network.                *)
(*                                                                         *)
(* Strings the code tests with startsWith are sequences of segments, so    *)
(* that a host name that merely extends the worker's origin is a different *)
(* origin with the same prefix.                                            *)
(*                                                                         *)
(* The environment decides what the code cannot: which request a page      *)
(* issues, whether the network answers (fetch, cache.addAll) and with      *)
(* what, and whether a cache operation rejects.  caches.open in install,   *)
(* caches.delete in activate and cache.put in the fetch handler may        *)
(* reject; the other cache operations fulfil.  Fetch events and            *)
(* CACHE_UPDATE messages reach the worker once it is activated.            *)
(***************************************************************************)
EXTENDS Naturals, Sequences, FiniteSets

\* ------------------------------------------------------------ bounds
\* fetch events dispatched in one run
MaxFetch == 2
\* CACHE_UPDATE messages received in one run
MaxUpdates == 1
\* project modals opened, and clicks that close one modal
MaxModals == 2
MaxCloses == 2

\* -------------------------------------------------- program constants
CACHE_NAME == "bastelglueck-v1"
STATIC_CACHE == "bastelglueck-static-v1"
DYNAMIC_CACHE == "bastelglueck-dynamic-v1"

STATIC_FILES ==
  <<"/", "/index.html", "/css/styles.css", "/js/main.js", "/manifest.json",
    "/files/DSC_5600.jpeg">>

\* self.location.origin, and the caches a previous deployment left behind
Origin == <<"https://netzscout.github.io">>
OldCaches == <<"bastelglueck-static-v0", "bastelglueck-dynamic-v0">>

\* ------------------------------------------------------------ strings
\* String.prototype.startsWith
StartsWith(s, p) == Len(p) <= Len(s) /\ SubSeq(s, 1, Len(p)) = p

\* A URL is its origin's segments followed by its path.
Url(origin, path) == origin \o <<path>>
OriginOf(url) == SubSeq(url, 1, Len(url) - 1)
PathOf(url) == url[Len(url)]
\* A root-relative path handed to the cache store resolves against the worker.
Resolve(path) == Url(Origin, path)

\* The media types the pages' requests carry, with the substrings the
\* fallback policy asks for.
MediaContains(token, needle) ==
  \/ token = "text/html" /\ needle = "text/html"
  \/ token \in {"image/webp", "image/*"} /\ needle = "image"

\* headers.get('accept').includes(needle) on a present header
Includes(value, needle) ==
  \E i \in 1..Len(value) : MediaContains(value[i], needle)

\* ---------------------------------------------------------- responses
Undefined == [kind |-> "undefined"]
NoResponse == [kind |-> "none"]
NetworkError == [kind |-> "error"]

Response(status, type, ctype, body) ==
  [kind |-> "response", status |-> status, type |-> type, ctype |-> ctype,
   body |-> body, redirected |-> FALSE]

\* the response at the end of a redirect that fetch followed
Redirected(resp) == [resp EXCEPT !.redirected = TRUE]

\* Every fetch yields a response of its own: a body is the path it was
\* fetched from and the operation that fetched it.
ServerBody(path, by) == <<path, by>>

\* new Response(svg, { headers: { 'Content-Type': 'image/svg+xml' } })
PlaceholderImage ==
  Response(200, "default", "image/svg+xml", <<"svg", <<"synthesized", 0>>>>)

\* -------------------------------------------------------- cache store
\* CacheStorage is the sequence of named caches in creation order; a cache
\* is a set of entries, one per request URL.
HasCache(cs, name) == \E i \in 1..Len(cs) : cs[i].name = name
CacheNames(cs) == {cs[i].name : i \in 1..Len(cs)}
CacheIndex(cs, name) == CHOOSE i \in 1..Len(cs) : cs[i].name = name
EntriesOf(cs, name) ==
  IF HasCache(cs, name) THEN cs[CacheIndex(cs, name)].entries ELSE {}
KeysOf(entries) == {e.url : e \in entries}

\* caches.open(name): the named cache, created at the end when missing
OpenCache(cs, name) ==
  IF HasCache(cs, name) THEN cs
  ELSE Append(cs, [name |-> name, entries |-> {}])

RECURSIVE Without(_, _)
Without(cs, name) ==
  IF cs = <<>> THEN <<>>
  ELSE IF Head(cs).name = name THEN Without(Tail(cs), name)
  ELSE <<Head(cs)>> \o Without(Tail(cs), name)

\* caches.delete(name)
DeleteCache(cs, name) == Without(cs, name)

\* a put that leaves an entry of the same URL in place
PutEntry_KeepFirst(entries, url, resp) ==
  IF url \in {e.url : e \in entries} THEN entries
  ELSE entries \cup {[url |-> url, resp |-> resp]}

\* cache.put(request, response): replaces the entry of the same URL
PutEntry(entries, url, resp) ==
  {e \in entries : e.url # url} \cup {[url |-> url, resp |-> resp]}

\* a write through a cache handle reaches the store only while the cache the
\* handle was opened on is still the one of that name
WriteThrough(cs, name, live, new) ==
  IF live /\ HasCache(cs, name)
  THEN [cs EXCEPT ![CacheIndex(cs, name)].entries = new]
  ELSE cs

\* cache.match(url) on one cache
MatchIn(entries, url) ==
  IF url \in KeysOf(entries)
  THEN (CHOOSE e \in entries : e.url = url).resp
  ELSE Undefined

\* only the static cache searched
MatchAll_StaticOnly(cs, url) ==
  IF url \in KeysOf(EntriesOf(cs, STATIC_CACHE))
  THEN [resp |-> MatchIn(EntriesOf(cs, STATIC_CACHE), url),
        from |-> STATIC_CACHE]
  ELSE [resp |-> Undefined, from |-> ""]

\* caches.match(url): the first cache, in creation order, holding the URL
RECURSIVE MatchAll(_, _)
MatchAll(cs, url) ==
  IF cs = <<>> THEN [resp |-> Undefined, from |-> ""]
  ELSE IF url \in KeysOf(Head(cs).entries)
  THEN [resp |-> MatchIn(Head(cs).entries, url), from |-> Head(cs).name]
  ELSE MatchAll(Tail(cs), url)

\* cache.addAll(STATIC_FILES) once every path was fetched with an ok status:
\* all entries are stored together
ManifestUrls == {Resolve(STATIC_FILES[i]) : i \in 1..Len(STATIC_FILES)}
ManifestEntries(by) ==
  {[url |-> Resolve(STATIC_FILES[i]),
    resp |-> Response(200, "basic", "", ServerBody(STATIC_FILES[i], by))] :
     i \in 1..Len(STATIC_FILES)}
\* only the first path of the list stored
AddAll_FirstOnly(entries, by) ==
  {e \in entries : e.url # Resolve(STATIC_FILES[1])}
    \cup {e \in ManifestEntries(by) : e.url = Resolve(STATIC_FILES[1])}

AddAll(entries, by) ==
  {e \in entries : e.url \notin ManifestUrls} \cup ManifestEntries(by)

\* -------------------------------------------------------------- state
VARIABLES
  caches,        \* the origin's CacheStorage
  worker,        \* the new worker's lifecycle state
  skipWaiting,   \* self.skipWaiting() was called
  oldControls,   \* pages are still controlled by the previous version
  claimed,       \* self.clients.claim() was called
  install,       \* the install handler
  activate,      \* the activate handler
  fetches,       \* the fetch events dispatched so far, with their handlers
  updates,       \* the CACHE_UPDATE messages received so far
  errors,        \* what console.error has logged
  port,          \* what the worker has posted on the pages' reply ports
  etsy,          \* the page's EtsyProductManager and its loadEtsyProducts call
  modals,        \* the project modals opened so far
  overflow,      \* document.body.style.overflow
  navOpen,       \* .nav-links carries the class 'open'
  ariaExpanded   \* the aria-expanded attribute of .mobile-menu-button

vars ==
  <<caches, worker, skipWaiting, oldControls, claimed, install, activate,
    fetches, updates, errors, port, etsy, modals, overflow, navOpen,
    ariaExpanded>>

workerVars ==
  <<caches, worker, skipWaiting, oldControls, claimed, install, activate,
    fetches, updates, errors, port>>
pageVars == <<etsy, modals, overflow, navOpen, ariaExpanded>>

\* The caches of the previous deployment, as it populated them.
OldStore ==
  <<[name |-> OldCaches[1], entries |-> ManifestEntries(<<"previous", 0>>)],
    [name |-> OldCaches[2],
     entries |-> {[url |-> Resolve("/about.html"),
                   resp |-> Response(200, "basic", "",
                                     ServerBody("/about.html", <<"previous", 0>>))]}]>>

\* The same caches when the previous worker script differed from this one
\* without a change of the cache names.
SameNameStore ==
  <<[name |-> STATIC_CACHE, entries |-> OldStore[1].entries],
    [name |-> DYNAMIC_CACHE, entries |-> OldStore[2].entries]>>

Init ==
  /\ \E previous \in {"none", "renamed", "same names"} :
       /\ caches = CASE previous = "none" -> <<>>
                      [] previous = "renamed" -> OldStore
                      [] previous = "same names" -> SameNameStore
       /\ oldControls = (previous # "none")
  /\ worker = "parsed"
  /\ skipWaiting = FALSE
  /\ claimed = FALSE
  /\ install = [pc |-> "idle", result |-> "pending", live |-> FALSE,
                failed |-> FALSE, skipped |-> FALSE]
  /\ activate = [pc |-> "idle", result |-> "pending", seen |-> {},
                 pending |-> {}, failed |-> FALSE]
  /\ fetches = <<>>
  /\ updates = <<>>
  /\ errors = {}
  /\ port = {}
  /\ etsy = [pc |-> "unloaded", apiKey |-> [kind |-> "null"], requests |-> 0,
             out |-> [kind |-> "none"], result |-> [state |-> "pending"]]
  /\ modals = <<>>
  /\ overflow = ""
  /\ navOpen = FALSE
  /\ ariaExpanded = "false"

\* ------------------------------------------------------------ install
\* The promise chain of the install handler ends in .catch, whose callback
\* logs and returns: the promise given to waitUntil fulfils either way.
InstallPromise(ok) == "fulfilled"

\* The runtime's reaction to the settled waitUntil promise of install.
AfterInstall(result) == IF result = "fulfilled" THEN "installed" ELSE "redundant"

\* The cache handles that die with the named cache.
Orphan(h, name) ==
  IF name = STATIC_CACHE THEN [h EXCEPT !.live = FALSE] ELSE h

\* self.skipWaiting() called however cache.addAll settled
CallsSkipWaiting_Always(ok) == TRUE

\* .then(() => self.skipWaiting()) after cache.addAll: the callback runs when
\* the chain before it fulfilled
CallsSkipWaiting(ok) == ok

InstallEvent ==
  /\ worker = "parsed"
  /\ worker' = "installing"
  /\ install' = [install EXCEPT !.pc = "open"]
  /\ UNCHANGED <<caches, skipWaiting, oldControls, claimed, activate, fetches,
                 updates, errors>>
  /\ UNCHANGED <<port, pageVars>>

\* caches.open(STATIC_CACHE) settles
InstallOpened ==
  /\ install.pc = "open"
  /\ \E ok \in BOOLEAN :
       IF ok
       THEN /\ caches' = OpenCache(caches, STATIC_CACHE)
            /\ install' = [install EXCEPT !.pc = "addAll", !.live = TRUE]
            /\ UNCHANGED <<worker, errors, skipWaiting>>
       ELSE /\ install' = [install EXCEPT !.pc = "done", !.failed = TRUE,
                                          !.result = InstallPromise(FALSE),
                                          !.skipped = CallsSkipWaiting(FALSE)]
            /\ skipWaiting' = (skipWaiting \/ CallsSkipWaiting(FALSE))
            /\ worker' = AfterInstall(InstallPromise(FALSE))
            /\ errors' = errors \cup {"Error caching static files"}
            /\ UNCHANGED caches
  /\ UNCHANGED <<oldControls, claimed, activate, fetches, updates>>
  /\ UNCHANGED <<port, pageVars>>

\* cache.addAll(STATIC_FILES) settles
InstallAddAll ==
  /\ install.pc = "addAll"
  /\ \E ok \in BOOLEAN :
       IF ok
       THEN /\ caches' = WriteThrough(caches, STATIC_CACHE, install.live,
                           AddAll(EntriesOf(caches, STATIC_CACHE), <<"install", 0>>))
            /\ skipWaiting' = (skipWaiting \/ CallsSkipWaiting(TRUE))
            /\ install' = [install EXCEPT !.pc = "done", !.live = FALSE,
                                          !.result = InstallPromise(TRUE),
                                          !.skipped = CallsSkipWaiting(TRUE)]
            /\ worker' = AfterInstall(InstallPromise(TRUE))
            /\ UNCHANGED errors
       ELSE /\ install' = [install EXCEPT !.pc = "done", !.failed = TRUE,
                                          !.live = FALSE,
                                          !.result = InstallPromise(FALSE),
                                          !.skipped = CallsSkipWaiting(FALSE)]
            /\ skipWaiting' = (skipWaiting \/ CallsSkipWaiting(FALSE))
            /\ worker' = AfterInstall(InstallPromise(FALSE))
            /\ errors' = errors \cup {"Error caching static files"}
            /\ UNCHANGED caches
  /\ UNCHANGED <<oldControls, claimed, activate, fetches, updates>>
  /\ UNCHANGED <<port, pageVars>>

\* ----------------------------------------------------------- activate
\* the test inverted: the current caches are the ones deleted
IsStale_Inverted(cacheName) ==
  cacheName = STATIC_CACHE \/ cacheName = DYNAMIC_CACHE

\* the test with its first half forgotten
IsStale_DynamicOnly(cacheName) == cacheName # DYNAMIC_CACHE

\* the test with its second half forgotten
IsStale_StaticOnly(cacheName) == cacheName # STATIC_CACHE

\* the test of the activate handler's map callback
IsStale(cacheName) == cacheName # STATIC_CACHE /\ cacheName # DYNAMIC_CACHE

\* The runtime dispatches activate once the worker is installed and either
\* skipWaiting was called or no page is controlled by the previous version;
\* the pages of the registration then use the new worker.
ActivateEvent ==
  /\ worker = "installed"
  /\ skipWaiting \/ ~oldControls
  /\ worker' = "activating"
  /\ oldControls' = FALSE
  /\ activate' = [activate EXCEPT !.pc = "keys"]
  /\ UNCHANGED <<caches, skipWaiting, claimed, install, fetches, updates,
                 errors>>
  /\ UNCHANGED <<port, pageVars>>

\* caches.keys() fulfils; the map callback starts every deletion at once
ActivateKeys ==
  /\ activate.pc = "keys"
  /\ activate' = [activate EXCEPT
       !.pc = "deleting",
       !.seen = CacheNames(caches),
       !.pending = {n \in CacheNames(caches) : IsStale(n)}]
  /\ UNCHANGED worker
  /\ UNCHANGED <<caches, skipWaiting, oldControls, claimed, install, fetches,
                 updates, errors>>
  /\ UNCHANGED <<port, pageVars>>

\* one caches.delete(cacheName) settles; Promise.all rejects with the first
\* rejection while the other deletions go on
ActivateDeleted ==
  /\ activate.pending # {}
  /\ \E n \in activate.pending, ok \in BOOLEAN :
       IF ok
       THEN /\ caches' = DeleteCache(caches, n)
            /\ activate' = [activate EXCEPT !.pending = @ \ {n}]
            /\ UNCHANGED worker
       ELSE /\ activate' = [activate EXCEPT !.pending = @ \ {n},
                                            !.failed = TRUE, !.pc = "done",
                                            !.result = "rejected"]
            /\ worker' = "activated"
            /\ UNCHANGED caches
  /\ UNCHANGED <<skipWaiting, oldControls, claimed, install, fetches, updates,
                 errors>>
  /\ UNCHANGED <<port, pageVars>>

\* Promise.all fulfilled: self.clients.claim()
ActivateClaim ==
  /\ activate.pc = "deleting"
  /\ activate.pending = {}
  /\ activate' = [activate EXCEPT !.pc = "done", !.result = "fulfilled"]
  /\ claimed' = TRUE
  /\ worker' = "activated"
  /\ UNCHANGED <<caches, skipWaiting, oldControls, install, fetches, updates,
                 errors>>
  /\ UNCHANGED <<port, pageVars>>

\* -------------------------------------------------------- environment
\* the pages of the previous version are closed
OldClientsClose ==
  /\ oldControls
  /\ oldControls' = FALSE
  /\ UNCHANGED <<caches, worker, skipWaiting, claimed, install, activate,
                 fetches, updates, errors>>
  /\ UNCHANGED <<port, pageVars>>

\* ----------------------------------------------------- message handler
\* {type: 'SKIP_WAITING'}: the flag matters to the runtime while the worker
\* is installing or waiting
MsgSkipWaiting ==
  /\ worker \in {"installing", "installed"}
  /\ skipWaiting' = TRUE
  /\ UNCHANGED <<caches, worker, oldControls, claimed, install, activate,
                 fetches, updates, errors>>
  /\ UNCHANGED <<port, pageVars>>

\* {type: 'GET_VERSION'}: the reply goes out on the port the page passed
VersionReply == [version |-> CACHE_NAME]

MsgGetVersion ==
  /\ worker \in {"installing", "installed", "activating", "activated"}
  /\ port' = port \cup {VersionReply}
  /\ UNCHANGED <<caches, worker, skipWaiting, oldControls, claimed, install,
                 activate, fetches, updates, errors>>
  /\ UNCHANGED pageVars

\* {type: 'CACHE_UPDATE'}, which a page sends to the worker that controls it:
\* caches.delete(STATIC_CACHE) is started
MsgCacheUpdate ==
  /\ worker = "activated"
  /\ Len(updates) < MaxUpdates
  /\ updates' = Append(updates,
       [pc |-> "delete", result |-> "pending", live |-> FALSE,
        prior |-> HasCache(caches, STATIC_CACHE)])
  /\ UNCHANGED <<caches, worker, skipWaiting, oldControls, claimed, install,
                 activate, fetches, errors>>
  /\ UNCHANGED <<port, pageVars>>

\* caches.delete(STATIC_CACHE) fulfils: the handles opened on the deleted
\* cache no longer reach the store, and no static cache from before any
\* running update is left
UpdateDeleted(k) ==
  /\ updates[k].pc = "delete"
  /\ caches' = DeleteCache(caches, STATIC_CACHE)
  /\ install' = Orphan(install, STATIC_CACHE)
  /\ updates' = [j \in 1..Len(updates) |->
       IF j = k
       THEN [updates[j] EXCEPT !.pc = "open", !.live = FALSE, !.prior = FALSE]
       ELSE [updates[j] EXCEPT !.live = FALSE, !.prior = FALSE]]
  /\ UNCHANGED <<worker, skipWaiting, oldControls, claimed, activate, fetches,
                 errors>>
  /\ UNCHANGED <<port, pageVars>>

\* caches.open(STATIC_CACHE) fulfils
UpdateOpened(k) ==
  /\ updates[k].pc = "open"
  /\ caches' = OpenCache(caches, STATIC_CACHE)
  /\ updates' = [updates EXCEPT ![k].pc = "addAll", ![k].live = TRUE]
  /\ UNCHANGED <<worker, skipWaiting, oldControls, claimed, install, activate,
                 fetches, errors>>
  /\ UNCHANGED <<port, pageVars>>

\* cache.addAll(STATIC_FILES) settles
UpdateAddAll(k) ==
  /\ updates[k].pc = "addAll"
  /\ \E ok \in BOOLEAN :
       IF ok
       THEN /\ caches' = WriteThrough(caches, STATIC_CACHE, updates[k].live,
                           AddAll(EntriesOf(caches, STATIC_CACHE), <<"update", k>>))
            /\ updates' = [updates EXCEPT ![k].pc = "done", ![k].live = FALSE,
                                          ![k].result = "fulfilled"]
       ELSE /\ updates' = [updates EXCEPT ![k].pc = "done", ![k].live = FALSE,
                                          ![k].result = "rejected"]
            /\ UNCHANGED caches
  /\ UNCHANGED <<worker, skipWaiting, oldControls, claimed, install, activate,
                 fetches, errors>>
  /\ UNCHANGED <<port, pageVars>>

\* ------------------------------------- sync, push, notificationclick
\* The three handlers log with console.log, show or close a notification and
\* open a window; none of them reads or writes the cache store, the worker's
\* lifecycle, console.error or a reply port.  The runtime dispatches these
\* events to the active worker.
\* whatever the tag: 'background-sync' passes the value of console.log(),
\* undefined, to waitUntil, and any other tag does not call waitUntil
SyncEvent ==
  /\ worker = "activated"
  /\ UNCHANGED vars

\* waitUntil(showNotification(...))
PushEvent ==
  /\ worker = "activated"
  /\ UNCHANGED vars

\* whatever the action: notification.close(), then
\* waitUntil(clients.openWindow('/')) unless the action is 'close'
NotificationClick ==
  /\ worker = "activated"
  /\ UNCHANGED vars

\* ------------------------------------------------------- fetch handler
\* The requests the pages issue.
Accept(value) == [present |-> TRUE, value |-> value]
NoAccept == [present |-> FALSE, value |-> <<>>]
Request(method, url, accept) ==
  [method |-> method, url |-> url, accept |-> accept]

LookalikeOrigin == Origin \o <<".evil.example">>
ForeignOrigin == <<"https://fonts.example">>

Requests ==
  { Request("GET", Resolve("/index.html"),
            Accept(<<"text/html", "image/webp", "*/*">>)),
    Request("GET", Resolve("/about.html"), Accept(<<"text/html">>)),
    Request("GET", Resolve("/files/pic.png"), Accept(<<"image/webp", "image/*">>)),
    Request("GET", Resolve("/api/data.json"), Accept(<<"application/json">>)),
    Request("GET", Resolve("/api/data.json"), NoAccept),
    Request("POST", Resolve("/index.html"), Accept(<<"text/html">>)),
    Request("GET", Url(LookalikeOrigin, "/index.html"), Accept(<<"text/html">>)),
    Request("GET", Url(ForeignOrigin, "/font.css"), Accept(<<"*/*">>)) }

\* the method test left out
IsGet_AnyMethod(req) == TRUE

\* event.request.method !== 'GET' -> return
IsGet(req) == req.method = "GET"

\* !event.request.url.startsWith(self.location.origin) -> return
PassesOriginCheck(req) == StartsWith(req.url, Origin)

\* whether the handler goes on to event.respondWith
Intercepts(req) == IsGet(req) /\ PassesOriginCheck(req)

\* The server moved two of the paths.  fetch follows the redirect of a
\* subresource request and yields the final response, marked redirected; a
\* navigation request has redirect mode manual and yields an opaque-redirect
\* response.
RedirectOutcomes(req, by) ==
  IF PathOf(req.url) = "/files/pic.png"
  THEN {Redirected(Response(200, "basic", "", ServerBody("/files/pic-2.png", by)))}
  ELSE IF PathOf(req.url) = "/about.html"
  THEN {Response(0, "opaqueredirect", "", <<"", by>>)}
  ELSE {}

\* What fetch(event.request) can settle with: a response of the server or a
\* network error.  A response to a request of another origin is not of type
\* basic.
NetOutcomes(req, by) ==
  IF OriginOf(req.url) = Origin
  THEN { Response(200, "basic", "", ServerBody(PathOf(req.url), by)),
         Response(204, "basic", "", <<"", by>>),
         Response(404, "basic", "", <<"not found", by>>),
         NetworkError }
       \cup RedirectOutcomes(req, by)
  ELSE { Response(200, "cors", "", ServerBody(PathOf(req.url), by)),
         NetworkError }

\* the validity check accepting every status of the 2xx range
IsCacheable_AnyOk(resp) ==
  resp.kind = "response" /\ resp.status \in 200..299 /\ resp.type = "basic"

\* the validity check without its test of the response type
IsCacheable_AnyType(resp) ==
  resp.kind = "response" /\ resp.status = 200

\* !fetchResponse || fetchResponse.status !== 200 || fetchResponse.type !== 'basic'
\* -> return fetchResponse
IsCacheable(resp) ==
  resp.kind = "response" /\ resp.status = 200 /\ resp.type = "basic"

\* a placeholder for whatever is not a document
OfflineFallback_DefaultPlaceholder(accept) ==
  IF accept.present /\ Includes(accept.value, "text/html") THEN "home"
  ELSE "placeholder"

\* the image test comparing the whole header instead of searching it
OfflineFallback_ExactImage(accept) ==
  IF ~accept.present THEN "typeError"
  ELSE IF Includes(accept.value, "text/html") THEN "home"
  ELSE IF accept.value = <<"image">> THEN "placeholder"
  ELSE "rethrow"

\* The catch callback's choice, in the order the code tests the accept header;
\* reading a header that is absent throws.
OfflineFallback(accept) ==
  IF ~accept.present THEN "typeError"
  ELSE IF Includes(accept.value, "text/html") THEN "home"
  ELSE IF Includes(accept.value, "image") THEN "placeholder"
  ELSE "rethrow"

NewFetch(req) ==
  [req |-> req,
   intercepted |-> Intercepts(req),
   pc |-> IF Intercepts(req) THEN "match" ELSE "done",
   result |-> IF Intercepts(req) THEN "pending" ELSE "passthrough",
   resp |-> NoResponse,
   from |-> "",
   lookups |-> 0,
   netCalls |-> 0,
   net |-> "none",
   wpc |-> "none",
   clone |-> NoResponse]

\* the runtime dispatches a fetch event to the active worker
FetchEvent ==
  /\ worker = "activated"
  /\ Len(fetches) < MaxFetch
  /\ \E req \in Requests : fetches' = Append(fetches, NewFetch(req))
  /\ UNCHANGED <<caches, worker, skipWaiting, oldControls, claimed, install,
                 activate, updates, errors>>
  /\ UNCHANGED <<port, pageVars>>

\* network first: the lookup's result is not looked at
AfterMatch_NetworkFirst(f, m) ==
  [f EXCEPT !.pc = "net", !.lookups = @ + 1, !.netCalls = @ + 1]

\* The then-callback of caches.match(event.request): a hit is returned, a
\* miss starts fetch(event.request).
AfterMatch(f, m) ==
  IF m.resp # Undefined
  THEN [f EXCEPT !.pc = "done", !.result = "fulfilled", !.resp = m.resp,
                 !.from = m.from, !.lookups = @ + 1]
  ELSE [f EXCEPT !.pc = "net", !.lookups = @ + 1, !.netCalls = @ + 1]

FetchMatch(i) ==
  /\ fetches[i].pc = "match"
  /\ fetches' = [fetches EXCEPT
       ![i] = AfterMatch(fetches[i], MatchAll(caches, fetches[i].req.url))]
  /\ UNCHANGED <<caches, worker, skipWaiting, oldControls, claimed, install,
                 activate, updates, errors>>
  /\ UNCHANGED <<port, pageVars>>

\* the response held back until the write has settled
AfterResponse_AwaitsWrite(f, out) ==
  IF IsCacheable(out)
  THEN [f EXCEPT !.pc = "done", !.from = "network", !.net = "ok",
                 !.wpc = "open", !.clone = out]
  ELSE [f EXCEPT !.pc = "done", !.result = "fulfilled", !.resp = out,
                 !.from = "network", !.net = "ok"]

\* The then-callback of fetch(event.request): a response that is not
\* cacheable is returned as it is; otherwise a clone is handed to
\* caches.open(DYNAMIC_CACHE), which is not waited for, and the response is
\* returned.
AfterResponse(f, out) ==
  IF IsCacheable(out)
  THEN [f EXCEPT !.pc = "done", !.result = "fulfilled", !.resp = out,
                 !.from = "network", !.net = "ok", !.wpc = "open",
                 !.clone = out]
  ELSE [f EXCEPT !.pc = "done", !.result = "fulfilled", !.resp = out,
                 !.from = "network", !.net = "ok"]

\* The catch-callback of fetch(event.request).
AfterFailure(f) ==
  CASE OfflineFallback(f.req.accept) = "home" ->
         [f EXCEPT !.pc = "fallback", !.net = "failed", !.lookups = @ + 1]
    [] OfflineFallback(f.req.accept) = "placeholder" ->
         [f EXCEPT !.pc = "done", !.result = "fulfilled", !.net = "failed",
                   !.resp = PlaceholderImage, !.from = "synthesized"]
    [] OTHER ->
         [f EXCEPT !.pc = "done", !.result = "rejected", !.net = "failed",
                   !.resp = NetworkError]

FetchSettled(i) ==
  /\ fetches[i].pc = "net"
  /\ \E out \in NetOutcomes(fetches[i].req, <<"fetch", i>>) :
       IF out = NetworkError
       THEN /\ fetches' = [fetches EXCEPT ![i] = AfterFailure(fetches[i])]
            /\ errors' = errors \cup {"Fetch failed"}
       ELSE /\ fetches' = [fetches EXCEPT ![i] = AfterResponse(fetches[i], out)]
            /\ UNCHANGED errors
  /\ UNCHANGED <<caches, worker, skipWaiting, oldControls, claimed, install,
                 activate, updates>>
  /\ UNCHANGED <<port, pageVars>>

\* caches.match('/index.html') of the catch-callback settles; its value is
\* what respondWith receives
FetchFallback(i) ==
  /\ fetches[i].pc = "fallback"
  /\ LET m == MatchAll(caches, Resolve("/index.html"))
     IN  fetches' = [fetches EXCEPT ![i].pc = "done",
                                    ![i].result = "fulfilled",
                                    ![i].resp = m.resp,
                                    ![i].from = m.from]
  /\ UNCHANGED <<caches, worker, skipWaiting, oldControls, claimed, install,
                 activate, updates, errors>>
  /\ UNCHANGED <<port, pageVars>>

\* caches.open(DYNAMIC_CACHE) fulfils: cache.put is started
FetchCacheOpened(i) ==
  /\ fetches[i].wpc = "open"
  /\ caches' = OpenCache(caches, DYNAMIC_CACHE)
  /\ fetches' = [fetches EXCEPT ![i].wpc = "put"]
  /\ UNCHANGED <<worker, skipWaiting, oldControls, claimed, install, activate,
                 updates, errors>>
  /\ UNCHANGED <<port, pageVars>>

\* cache.put(event.request, responseToCache) settles; nothing handles its
\* rejection but the worker's unhandledrejection listener
FetchPut(i) ==
  /\ fetches[i].wpc = "put"
  /\ \E ok \in BOOLEAN :
       IF ok
       THEN /\ caches' = WriteThrough(caches, DYNAMIC_CACHE, TRUE,
                           PutEntry(EntriesOf(caches, DYNAMIC_CACHE),
                                    fetches[i].req.url, fetches[i].clone))
            /\ fetches' = [fetches EXCEPT ![i].wpc = "stored"]
            /\ UNCHANGED errors
       ELSE /\ fetches' = [fetches EXCEPT ![i].wpc = "failed"]
            /\ errors' = errors \cup {"Unhandled promise rejection"}
            /\ UNCHANGED caches
  /\ UNCHANGED <<worker, skipWaiting, oldControls, claimed, install, activate,
                 updates>>
  /\ UNCHANGED <<port, pageVars>>

Next ==
  \/ InstallEvent
  \/ InstallOpened
  \/ InstallAddAll
  \/ ActivateEvent
  \/ ActivateKeys
  \/ ActivateDeleted
  \/ ActivateClaim
  \/ OldClientsClose
  \/ MsgSkipWaiting
  \/ MsgGetVersion
  \/ MsgCacheUpdate
  \/ \E k \in 1..Len(updates) : UpdateDeleted(k)
  \/ \E k \in 1..Len(updates) : UpdateOpened(k)
  \/ \E k \in 1..Len(updates) : UpdateAddAll(k)
  \/ FetchEvent
  \/ \E i \in 1..Len(fetches) : FetchMatch(i)
  \/ \E i \in 1..Len(fetches) : FetchSettled(i)
  \/ \E i \in 1..Len(fetches) : FetchFallback(i)
  \/ \E i \in 1..Len(fetches) : FetchCacheOpened(i)
  \/ \E i \in 1..Len(fetches) : FetchPut(i)
  \/ SyncEvent
  \/ PushEvent
  \/ NotificationClick

Spec == Init /\ [][Next]_vars

\* ==================================================== the pages' scripts
\* The scripts of the pages run apart from the service worker; they are
\* specified by PageSpec, in which the worker does not move.

\* -------------------------------------------------- etsy-integration.js
Null == [kind |-> "null"]
Str(s) == [kind |-> "string", value |-> s]
PlaceholderKey == "IHR_API_KEY_HIER"

\* what the page may have loaded as CONFIG before the manager is constructed
NoConfig == [defined |-> FALSE]
Config(section) == [defined |-> TRUE, etsy |-> section]
NoEtsy == [present |-> FALSE]
EtsyConfig(apiKey) == [present |-> TRUE, apiKey |-> apiKey]
Configs ==
  { NoConfig, Config(NoEtsy), Config(EtsyConfig("")),
    Config(EtsyConfig(PlaceholderKey)), Config(EtsyConfig("k3y")) }

\* (typeof CONFIG !== 'undefined' && CONFIG.etsy?.apiKey) ? CONFIG.etsy.apiKey : null
ApiKeyOf(config) ==
  IF config.defined /\ config.etsy.present /\ config.etsy.apiKey # ""
  THEN Str(config.etsy.apiKey)
  ELSE Null

\* !this.apiKey || this.apiKey === 'IHR_API_KEY_HIER'
NeedsFallback(apiKey) == apiKey = Null \/ apiKey = Str(PlaceholderKey)

\* getFallbackProducts()
FallbackProducts ==
  [kind |-> "array",
   items |-> <<[id |-> <<"etsy-", "1">>, category |-> "templates", inStock |-> TRUE],
               [id |-> <<"etsy-", "2">>, category |-> "diy", inStock |-> TRUE]>>]

\* how a block of statements completes
Return(value) == [type |-> "return", value |-> value]
Throw == [type |-> "throw"]

\* the listings the API may deliver: one complete, one without a description,
\* one without images
Listing(id, description, images, tags, quantity) ==
  [listing_id |-> id, description |-> description, images |-> images,
   tags |-> tags, quantity |-> quantity]
Array(items) == [kind |-> "array", items |-> items]
GoodListing ==
  Listing("7", Str(<<"a", "b", "c">>), Array(<<>>), Array(<<"ostern deko">>), 0)
ListingWithoutDescription ==
  Listing("8", Undefined, Array(<<>>), Array(<<"digital">>), 1)
ListingWithoutImages ==
  Listing("9", Str(<<"a">>), Undefined, Array(<<"diy">>), 1)

\* tag.includes(needle) for the tags above
TagIncludes(tag, needle) ==
  \/ tag = "digital" /\ needle = "digital"
  \/ tag = "diy" /\ needle = "diy"
  \/ tag = "ostern deko" /\ needle = "ostern"

AnyTag(tags, needles) ==
  \E i \in 1..Len(tags.items) : \E n \in needles : TagIncludes(tags.items[i], n)

\* categorizeProduct(tags)
CategorizeProduct(tags) ==
  IF AnyTag(tags, {"digital", "template"}) THEN "templates"
  ELSE IF AnyTag(tags, {"diy", "anleitung"}) THEN "diy"
  ELSE IF AnyTag(tags, {"weihnacht", "ostern"}) THEN "seasonal"
  ELSE "diy"

\* the callback of etsyProducts.map throws a TypeError on a listing that
\* lacks description, images or tags
FormatThrows(product) ==
  \/ product.description = Undefined
  \/ product.images = Undefined
  \/ product.tags = Undefined

FormatProduct(product) ==
  [id |-> <<"etsy-", product.listing_id>>,
   category |-> CategorizeProduct(product.tags),
   inStock |-> product.quantity > 0]

\* formatEtsyProducts(etsyProducts); undefined.map throws as well
FormatEtsyProducts(results) ==
  IF results = Undefined THEN Throw
  ELSE IF \E i \in 1..Len(results.items) : FormatThrows(results.items[i]) THEN Throw
  ELSE Return(Array([i \in 1..Len(results.items) |-> FormatProduct(results.items[i])]))

\* what the request to openapi.etsy.com and the reading of its body can come to
FetchRejected == [kind |-> "rejected"]
HttpResponse(ok, json) == [kind |-> "response", ok |-> ok, json |-> json]
JsonRejected == [kind |-> "rejected"]
Json(results) == [kind |-> "json", results |-> results]
EtsyOutcomes ==
  { FetchRejected,
    HttpResponse(FALSE, JsonRejected),
    HttpResponse(TRUE, JsonRejected),
    HttpResponse(TRUE, Json(Undefined)),
    HttpResponse(TRUE, Json(Array(<<>>))),
    HttpResponse(TRUE, Json(Array(<<GoodListing>>))),
    HttpResponse(TRUE, Json(Array(<<GoodListing, ListingWithoutDescription>>))),
    HttpResponse(TRUE, Json(Array(<<ListingWithoutImages>>))) }

\* the try block of loadEtsyProducts
TryBlock(out) ==
  IF out.kind = "rejected" THEN Throw
  ELSE IF ~out.ok THEN Throw
  ELSE IF out.json.kind = "rejected" THEN Throw
  ELSE FormatEtsyProducts(out.json.results)

Resolved(value) == [state |-> "resolved", value |-> value]
Rejected == [state |-> "rejected"]
Pending == [state |-> "pending"]

\* no catch block: what the try block throws rejects the promise
AfterTry_Rethrows(completion) ==
  IF completion.type = "throw" THEN Rejected ELSE Resolved(completion.value)

\* the catch block returns the fallback products
AfterTry(completion) ==
  IF completion.type = "throw"
  THEN Resolved(FallbackProducts)
  ELSE Resolved(completion.value)

\* new EtsyProductManager()
EtsyConstruct ==
  /\ etsy.pc = "unloaded"
  /\ \E config \in Configs :
       etsy' = [etsy EXCEPT !.pc = "ready", !.apiKey = ApiKeyOf(config)]
  /\ UNCHANGED <<modals, overflow, navOpen, ariaExpanded>>
  /\ UNCHANGED workerVars

\* loadEtsyProducts() up to its first await
LoadEtsyProducts ==
  /\ etsy.pc = "ready"
  /\ etsy' = IF NeedsFallback(etsy.apiKey)
             THEN [etsy EXCEPT !.pc = "done",
                               !.result = Resolved(FallbackProducts)]
             ELSE [etsy EXCEPT !.pc = "fetch", !.requests = @ + 1]
  /\ UNCHANGED <<modals, overflow, navOpen, ariaExpanded>>
  /\ UNCHANGED workerVars

\* the request and the reading of its body settle
EtsyFetchSettled ==
  /\ etsy.pc = "fetch"
  /\ \E out \in EtsyOutcomes :
       etsy' = [etsy EXCEPT !.pc = "done", !.out = out,
                            !.result = AfterTry(TryBlock(out))]
  /\ UNCHANGED <<modals, overflow, navOpen, ariaExpanded>>
  /\ UNCHANGED workerVars

\* ------------------------------------- PortfolioManager's project modal
NewModal ==
  [attached |-> TRUE, active |-> FALSE, activation |-> TRUE, esc |-> TRUE,
   closes |-> 0, timers |-> 0, removeCalls |-> 0, thrown |-> FALSE]

\* closeModal(): the class goes at once, the removal is left to a timer
CloseModal(modal) == [modal EXCEPT !.active = FALSE, !.timers = @ + 1]

\* openProjectModal(project): a click on a portfolio item or its button, also
\* by keyboard while another modal is shown
OpenProjectModal ==
  /\ Len(modals) < MaxModals
  /\ modals' = Append(modals, NewModal)
  /\ overflow' = "hidden"
  /\ UNCHANGED <<etsy, navOpen, ariaExpanded>>
  /\ UNCHANGED workerVars

\* setTimeout(() => modal.classList.add('active'), 10)
ModalActivate(m) ==
  /\ modals[m].activation
  /\ modals' = [modals EXCEPT ![m].activation = FALSE, ![m].active = TRUE]
  /\ UNCHANGED <<etsy, overflow, navOpen, ariaExpanded>>
  /\ UNCHANGED workerVars

\* a click on .modal-close or on .modal-backdrop of a modal in the document
ClickClose(m) ==
  /\ modals[m].attached
  /\ modals[m].closes < MaxCloses
  /\ modals' = [modals EXCEPT ![m] = [CloseModal(@) EXCEPT !.closes = @ + 1]]
  /\ UNCHANGED <<etsy, overflow, navOpen, ariaExpanded>>
  /\ UNCHANGED workerVars

\* keydown with key 'Escape': every escHandler still registered on the
\* document closes its modal and removes itself
KeydownEscape ==
  /\ \E m \in 1..Len(modals) : modals[m].esc
  /\ modals' = [m \in 1..Len(modals) |->
       IF modals[m].esc
       THEN [CloseModal(modals[m]) EXCEPT !.esc = FALSE]
       ELSE modals[m]]
  /\ UNCHANGED <<etsy, overflow, navOpen, ariaExpanded>>
  /\ UNCHANGED workerVars

\* the 300 ms timer of closeModal: document.body.removeChild(modal) throws a
\* NotFoundError when the modal is no child of the body, and the statement
\* after it is not reached
RemoveTimeout(m) ==
  /\ modals[m].timers > 0
  /\ IF modals[m].attached
     THEN /\ modals' = [modals EXCEPT ![m].timers = @ - 1,
                                      ![m].attached = FALSE,
                                      ![m].removeCalls = @ + 1]
          /\ overflow' = ""
     ELSE /\ modals' = [modals EXCEPT ![m].timers = @ - 1,
                                      ![m].removeCalls = @ + 1,
                                      ![m].thrown = TRUE]
          /\ UNCHANGED overflow
  /\ UNCHANGED <<etsy, navOpen, ariaExpanded>>
  /\ UNCHANGED workerVars

\* ----------------------------------------------- portfolio-simple.js
\* setAttribute stores the string of its argument
BoolString(b) == IF b THEN "true" ELSE "false"

\* button.setAttribute('aria-expanded', !isOpen)
MenuAria(isOpen) == BoolString(~isOpen)

\* click on .mobile-menu-button
ClickMenuButton ==
  /\ LET isOpen == navOpen
     IN  /\ navOpen' = ~isOpen
         /\ ariaExpanded' = MenuAria(isOpen)
  /\ UNCHANGED <<etsy, modals, overflow>>
  /\ UNCHANGED workerVars

\* click on a link nav a[href^="#"]: when its target exists the class 'open'
\* is removed from .nav-links; the button is not touched
ClickNavLink ==
  /\ \E target \in BOOLEAN :
       navOpen' = IF target THEN FALSE ELSE navOpen
  /\ UNCHANGED ariaExpanded
  /\ UNCHANGED <<etsy, modals, overflow>>
  /\ UNCHANGED workerVars

PageNext ==
  \/ EtsyConstruct
  \/ LoadEtsyProducts
  \/ EtsyFetchSettled
  \/ OpenProjectModal
  \/ \E m \in 1..Len(modals) : ModalActivate(m)
  \/ \E m \in 1..Len(modals) : ClickClose(m)
  \/ KeydownEscape
  \/ \E m \in 1..Len(modals) : RemoveTimeout(m)
  \/ ClickMenuButton
  \/ ClickNavLink

PageSpec == Init /\ [][PageNext]_vars

\* ------------------------------------------------------------- claims
SameOrigin(req) == OriginOf(req.url) = Origin
StaticKeys == KeysOf(EntriesOf(caches, STATIC_CACHE))
Handlers == 1..Len(fetches)

\* C1: once the promise the install handler gave to waitUntil has fulfilled,
\* every path of STATIC_FILES has an entry in the static cache.
C1_InstalledHoldsManifest ==
  install.result = "fulfilled" => ManifestUrls \subseteq StaticKeys

\* C2: when populating the static cache fails during install, the promise
\* given to waitUntil rejects, the worker neither becomes installed nor takes
\* over, and the error is logged.
C2_FailedInstallAborts ==
  install.failed =>
    /\ install.result = "rejected"
    /\ worker \notin {"installed", "activating", "activated"}
    /\ "Error caching static files" \in errors

\* C3: when the lookup of an intercepted request finds an entry for its URL
\* in the cache store, the handler answers with that stored response and
\* issues no network request.
C3_HitServedWithoutNetwork ==
  [][\A i \in Handlers :
       (/\ fetches[i].pc = "match"
        /\ fetches'[i].pc # "match"
        /\ MatchAll(caches, fetches[i].req.url).resp # Undefined)
       => /\ fetches'[i].pc = "done"
          /\ fetches'[i].result = "fulfilled"
          /\ fetches'[i].resp = MatchAll(caches, fetches[i].req.url).resp
          /\ fetches'[i].netCalls = 0
          /\ fetches'[i].net = "none"]_vars

C3_Witness ==
  \E i \in Handlers :
    /\ SameOrigin(fetches[i].req)
    /\ fetches[i].pc = "done"
    /\ fetches[i].from = STATIC_CACHE
    /\ fetches[i].netCalls = 0
\* C4 as stated: once a handler's dynamic-cache write for a URL has completed,
\* a later lookup of the same URL is served from the dynamic cache without a
\* network request.
Stored(url) ==
  \E j \in Handlers : fetches[j].wpc = "stored" /\ fetches[j].req.url = url

C6_HtmlFallbackIsHomeDocument ==
  \A i \in Handlers :
    (/\ SameOrigin(fetches[i].req)
     /\ fetches[i].pc = "done"
     /\ fetches[i].net = "failed"
     /\ fetches[i].req.accept.present
     /\ Includes(fetches[i].req.accept.value, "text/html"))
    => /\ fetches[i].result = "fulfilled"
       /\ fetches[i].resp.kind = "response"
       /\ fetches[i].resp.body[1] = "/index.html"

\* C7: a same-origin GET request that missed the cache, failed on the network
\* and whose Accept header indicates an image and not text/html is answered
\* with a synthesized response of Content-Type image/svg+xml and a successful
\* status, with no cache lookup and no network access after the failure.
C7_ImageFallbackIsPlaceholder ==
  \A i \in Handlers :
    (/\ SameOrigin(fetches[i].req)
     /\ fetches[i].net = "failed"
     /\ fetches[i].req.accept.present
     /\ ~Includes(fetches[i].req.accept.value, "text/html")
     /\ Includes(fetches[i].req.accept.value, "image"))
    => /\ fetches[i].pc = "done"
       /\ fetches[i].result = "fulfilled"
       /\ fetches[i].resp.kind = "response"
       /\ fetches[i].resp.ctype = "image/svg+xml"
       /\ fetches[i].resp.status \in 200..299
       /\ fetches[i].from = "synthesized"
       /\ fetches[i].lookups = 1
       /\ fetches[i].netCalls = 1

C7_Witness ==
  \E i \in Handlers :
    /\ SameOrigin(fetches[i].req)
    /\ fetches[i].net = "failed"
    /\ fetches[i].req.accept.present
    /\ ~Includes(fetches[i].req.accept.value, "text/html")
    /\ Includes(fetches[i].req.accept.value, "image")
    /\ fetches[i].resp = PlaceholderImage

\* C8 as stated: once a CACHE_UPDATE message has been processed, the static
\* cache holds exactly the manifest, fetched by an update.
FreshManifest ==
  \E j \in 1..Len(updates) :
    EntriesOf(caches, STATIC_CACHE) = ManifestEntries(<<"update", j>>)

C9_OtherOriginsPassThrough ==
  \A i \in Handlers :
    ~SameOrigin(fetches[i].req)
    => /\ ~fetches[i].intercepted
       /\ fetches[i].lookups = 0
       /\ fetches[i].wpc = "none"

\* C10: for a request whose method is not GET the handler does not call
\* respondWith, fetches nothing, reads no cache, and its event leaves every
\* cache as it was.
C10_NonGetUntouched ==
  /\ [](\A i \in Handlers :
          fetches[i].req.method # "GET"
          => /\ ~fetches[i].intercepted
             /\ fetches[i].result = "passthrough"
             /\ fetches[i].lookups = 0
             /\ fetches[i].netCalls = 0
             /\ fetches[i].wpc = "none")
  /\ [][(/\ Len(fetches') = Len(fetches) + 1
         /\ fetches'[Len(fetches')].req.method # "GET")
        => caches' = caches]_vars

C10_Witness ==
  \E i \in Handlers :
    /\ fetches[i].req.method # "GET"
    /\ fetches[i].pc = "done"
    /\ MatchAll(caches, fetches[i].req.url).resp # Undefined

\* Response.ok: a status in the range 200..299
IsOk(resp) == resp.kind = "response" /\ resp.status \in 200..299
WorkerEntries ==
  EntriesOf(caches, STATIC_CACHE) \cup EntriesOf(caches, DYNAMIC_CACHE)

\* C11: every entry of the static and of the dynamic cache, whichever of the
\* install handler, the CACHE_UPDATE handler and the fetch handler wrote it,
\* holds a response with a successful status and type basic; no opaque,
\* cross-origin or error response is stored.
C11_StoredResponsesAreBasicOk ==
  \A e \in WorkerEntries : IsOk(e.resp) /\ e.resp.type = "basic"

C11_Witness ==
  /\ \E k \in 1..Len(updates) : updates[k].result = "fulfilled"
  /\ \E i \in Handlers :
       /\ fetches[i].wpc = "stored"
       /\ fetches[i].req.url \in KeysOf(EntriesOf(caches, DYNAMIC_CACHE))
  /\ \E j \in Handlers :
       /\ fetches[j].intercepted
       /\ fetches[j].pc = "done"
       /\ fetches[j].resp.kind = "response"
       /\ fetches[j].resp.type = "cors"

\* C12: on a cache miss, a network response that is opaque, redirected or of
\* a non-2xx status is returned to the page as it came and no write to a
\* cache is started for it.
C12_UncacheableNotStored ==
  \A i \in Handlers :
    (/\ fetches[i].intercepted
     /\ fetches[i].net = "ok"
     /\ \/ fetches[i].resp.type # "basic"
        \/ fetches[i].resp.redirected
        \/ ~IsOk(fetches[i].resp))
    => /\ fetches[i].result = "fulfilled"
       /\ fetches[i].from = "network"
       /\ fetches[i].wpc = "none"

DynamicEntries == EntriesOf(caches, DYNAMIC_CACHE)

C14_EventOutlastsItsWork ==
  /\ install.result # "pending" => install.pc = "done"
  /\ activate.result # "pending" => activate.pending = {}
  /\ \A i \in Handlers :
       fetches[i].result \in {"fulfilled", "rejected"}
       => fetches[i].wpc \notin {"open", "put"}

\* C15: when a same-origin GET request misses the cache, the network request
\* fails and no fallback applies (the Accept header names neither text/html
\* nor image, or there is no Accept header), the handler's promise rejects:
\* the page sees a failed fetch, no response is made up and no cache is read
\* again.
C15_NoFallbackFails ==
  \A i \in Handlers :
    (/\ SameOrigin(fetches[i].req)
     /\ fetches[i].net = "failed"
     /\ \/ ~fetches[i].req.accept.present
        \/ /\ ~Includes(fetches[i].req.accept.value, "text/html")
           /\ ~Includes(fetches[i].req.accept.value, "image"))
    => /\ fetches[i].pc = "done"
       /\ fetches[i].result = "rejected"
       /\ fetches[i].resp = NetworkError
       /\ fetches[i].lookups = 1
       /\ fetches[i].wpc = "none"

C15_Witness ==
  /\ \E i \in Handlers :
       /\ SameOrigin(fetches[i].req)
       /\ fetches[i].net = "failed"
       /\ ~fetches[i].req.accept.present
       /\ fetches[i].result = "rejected"
  /\ \E j \in Handlers :
       /\ SameOrigin(fetches[j].req)
       /\ fetches[j].net = "failed"
       /\ fetches[j].req.accept.present
       /\ ~Includes(fetches[j].req.accept.value, "text/html")
       /\ ~Includes(fetches[j].req.accept.value, "image")
       /\ fetches[j].result = "rejected"

\* C16: a GET_VERSION message is answered on the port that came with it by
\* {version: v}, where v is the name under which the static cache is opened.
C16_VersionIsStaticCacheName ==
  \A m \in port : m = [version |-> STATIC_CACHE]

\* C17: every rejected cache or network operation started by the install,
\* activate, fetch or CACHE_UPDATE handler has left an entry in the error log,
\* and the worker stays in service.
C17_EveryRejectionLogged ==
  /\ install.failed => "Error caching static files" \in errors
  /\ activate.failed => errors # {}
  /\ \A k \in 1..Len(updates) : updates[k].result = "rejected" => errors # {}
  /\ \A i \in Handlers :
       /\ fetches[i].net = "failed" => "Fetch failed" \in errors
       /\ fetches[i].wpc = "failed" => "Unhandled promise rejection" \in errors
  /\ (install.failed \/ activate.failed) => worker # "redundant"

\* C18: for a cacheable miss the page has the network response as soon as the
\* write to the dynamic cache is started: the handler's promise is fulfilled
\* with that same response while the write is pending, after it has stored and
\* after it has failed, and a failed write is in the error log.
C18_ResponseIndependentOfWrite ==
  \A i \in Handlers :
    fetches[i].wpc # "none"
    => /\ fetches[i].pc = "done"
       /\ fetches[i].result = "fulfilled"
       /\ fetches[i].from = "network"
       /\ fetches[i].resp = fetches[i].clone
       /\ IsCacheable(fetches[i].resp)
       /\ fetches[i].wpc = "failed"
            => "Unhandled promise rejection" \in errors

C18_Witness ==
  /\ \E i \in Handlers :
       /\ fetches[i].wpc = "failed"
       /\ fetches[i].result = "fulfilled"
       /\ fetches[i].resp.status = 200
       /\ fetches[i].req.url \notin KeysOf(DynamicEntries)
  /\ \E j \in Handlers :
       /\ fetches[j].wpc = "put"
       /\ fetches[j].result = "fulfilled"

StaticCacheOf(cs) == <<HasCache(cs, STATIC_CACHE), EntriesOf(cs, STATIC_CACHE)>>

\* C19: a step that creates, deletes or changes the static cache is a step of
\* the install handler or of the CACHE_UPDATE handler; no fetch, activate,
\* sync, push, notificationclick or other message event changes it.
C19_StaticCacheFrame ==
  [][StaticCacheOf(caches') # StaticCacheOf(caches)
     => /\ install' # install \/ updates' # updates
        /\ fetches' = fetches
        /\ activate' = activate
        /\ port' = port]_vars

C19_Witness ==
  /\ STATIC_CACHE \in activate.seen
  /\ activate.result = "fulfilled"
  /\ port # {}
  /\ \E k \in 1..Len(updates) :
       /\ updates[k].result = "fulfilled"
       /\ \A e \in EntriesOf(caches, STATIC_CACHE) : e.resp.body[2] = <<"update", k>>
  /\ \E i \in Handlers : fetches[i].wpc = "stored"

\* C20: the dynamic cache only grows: no step deletes it or removes the entry
\* of a URL from it.
C20_DynamicCacheOnlyGrows ==
  [][HasCache(caches, DYNAMIC_CACHE)
     => /\ HasCache(caches', DYNAMIC_CACHE)
        /\ KeysOf(EntriesOf(caches, DYNAMIC_CACHE))
             \subseteq KeysOf(EntriesOf(caches', DYNAMIC_CACHE))]_vars

C20_Witness ==
  /\ DYNAMIC_CACHE \in activate.seen
  /\ activate.result = "fulfilled"
  /\ \E k \in 1..Len(updates) : updates[k].result = "fulfilled"
  /\ \E i \in Handlers :
       /\ fetches[i].wpc = "stored"
       /\ fetches[i].req.url # Resolve("/about.html")
       /\ {fetches[i].req.url, Resolve("/about.html")}
            \subseteq KeysOf(EntriesOf(caches, DYNAMIC_CACHE))

\* C21: the install handler calls skipWaiting exactly when cache.addAll has
\* stored the whole manifest, never before the static cache holds every
\* manifest path, and after such an install the worker can be activated while
\* pages of the previous version are still open.
C21_SkipWaitingIffManifestStored ==
  /\ install.skipped => install.pc = "done" /\ ~install.failed /\ skipWaiting
  /\ (install.pc = "done" /\ ~install.failed) => install.skipped
  /\ (install.skipped /\ updates = <<>>) => ManifestUrls \subseteq StaticKeys
  /\ (install.skipped /\ worker = "installed") => ENABLED ActivateEvent

C21_Witness ==
  /\ install.skipped
  /\ worker = "activating"
  /\ CacheNames(caches) = {STATIC_CACHE} \cup {OldCaches[1], OldCaches[2]}
  /\ ManifestUrls \subseteq StaticKeys

\* C22: every activation ends with clients.claim() called, and the call comes
\* only after every deletion of a stale cache that the activation started has
\* settled.
C22_ActivationEndsWithClaim ==
  /\ activate.pc = "done" => claimed
  /\ claimed => activate.pending = {}

\* C23: when the network request failed and the Accept header names both
\* text/html and an image type, the handler answers with the cached home
\* document and not with the placeholder image.
C23_HtmlWinsOverImage ==
  \A i \in Handlers :
    (/\ fetches[i].pc = "done"
     /\ fetches[i].net = "failed"
     /\ fetches[i].req.accept.present
     /\ Includes(fetches[i].req.accept.value, "text/html")
     /\ Includes(fetches[i].req.accept.value, "image"))
    => /\ fetches[i].resp # PlaceholderImage
       /\ fetches[i].from \in {STATIC_CACHE, DYNAMIC_CACHE}
       /\ fetches[i].resp.kind = "response"
       /\ fetches[i].resp.body[1] = "/index.html"

\* C25: whenever the promise a fetch handler gave to respondWith has
\* fulfilled, its value is a response object and never undefined, including
\* the HTML fallback while /index.html is in no cache.
C25_RespondsWithResponse ==
  \A i \in Handlers :
    (fetches[i].intercepted /\ fetches[i].result = "fulfilled")
    => fetches[i].resp.kind = "response"

\* C26: once install has populated the static cache, every manifest path is
\* in the static cache in every later state, also while a CACHE_UPDATE is
\* being processed and after one whose cache.addAll failed.
C26_ManifestStaysCached ==
  (install.pc = "done" /\ ~install.failed)
  => /\ HasCache(caches, STATIC_CACHE)
     /\ ManifestUrls \subseteq StaticKeys

\* C27: after a successful install no manifest path is ever stored in the
\* dynamic cache, and a request for a manifest path that the handler answers
\* is answered from the static cache, however fetch events interleave with
\* the processing of a CACHE_UPDATE.
C27_ManifestNeverInDynamic ==
  (install.pc = "done" /\ ~install.failed)
  => /\ ManifestUrls \cap KeysOf(DynamicEntries) = {}
     /\ \A i \in Handlers :
          (/\ fetches[i].req.url \in ManifestUrls
           /\ fetches[i].intercepted
           /\ fetches[i].pc = "done")
          => fetches[i].from = STATIC_CACHE

EntriesFor(entries, url) == {e \in entries : e.url = url}

\* C28: two fetch events for the same URL that both missed the cache are
\* independent: each made its own network request and wrote its own clone,
\* every completed write leaves exactly one entry for the URL, the writer's,
\* and once both have written the entry is one of the two responses.
C28_OverlappingFetchesIndependent ==
  /\ [](\A i, j \in Handlers :
          (/\ i # j
           /\ fetches[i].req.url = fetches[j].req.url
           /\ fetches[i].wpc = "stored"
           /\ fetches[j].wpc = "stored")
          => /\ fetches[i].netCalls = 1 /\ fetches[j].netCalls = 1
             /\ fetches[i].clone.body[2] = <<"fetch", i>>
             /\ fetches[j].clone.body[2] = <<"fetch", j>>
             /\ Cardinality(EntriesFor(DynamicEntries, fetches[i].req.url)) = 1
             /\ MatchIn(DynamicEntries, fetches[i].req.url)
                  \in {fetches[i].clone, fetches[j].clone})
  /\ [][\A i \in Handlers :
          (fetches[i].wpc = "put" /\ fetches'[i].wpc = "stored")
          => EntriesFor(EntriesOf(caches', DYNAMIC_CACHE), fetches[i].req.url)
               = {[url |-> fetches[i].req.url, resp |-> fetches[i].clone]}]_vars

C28_Witness ==
  /\ Len(fetches) = 2
  /\ fetches[1].req.url = fetches[2].req.url
  /\ fetches[1].wpc = "stored"
  /\ fetches[2].wpc = "stored"
  /\ fetches[1].clone # fetches[2].clone
  /\ MatchIn(DynamicEntries, fetches[1].req.url) = fetches[1].clone

\* an ok response whose body parses to a results array of complete listings
WellFormed(out) ==
  /\ out.kind = "response" /\ out.ok
  /\ out.json.kind = "json"
  /\ out.json.results # Undefined
  /\ \A i \in 1..Len(out.json.results.items) :
       LET listing == out.json.results.items[i]
       IN  /\ listing.description # Undefined
           /\ listing.images # Undefined
           /\ listing.tags # Undefined

\* C24: loadEtsyProducts never rejects. Without a key, or with the
\* placeholder key, it resolves with the fallback products and no request has
\* been made; with a key it makes one request and resolves with the fallback
\* products unless the response is ok and well formed, in which case it
\* resolves with one formatted product per listing.
C24_LoadAlwaysResolves ==
  /\ etsy.result # Rejected
  /\ etsy.pc = "done" =>
       /\ etsy.result.state = "resolved"
       /\ (etsy.apiKey = Null \/ etsy.apiKey = Str(PlaceholderKey)) =>
            /\ etsy.requests = 0
            /\ etsy.result.value = FallbackProducts
       /\ ~(etsy.apiKey = Null \/ etsy.apiKey = Str(PlaceholderKey)) =>
            /\ etsy.requests = 1
            /\ ~WellFormed(etsy.out) => etsy.result.value = FallbackProducts
            /\ WellFormed(etsy.out) =>
                 /\ Len(etsy.result.value.items) = Len(etsy.out.json.results.items)
                 /\ \A i \in 1..Len(etsy.result.value.items) :
                      etsy.result.value.items[i].id =
                        <<"etsy-", etsy.out.json.results.items[i].listing_id>>
  /\ etsy.pc # "done" => etsy.result = Pending

\* a formatting exception on an ok response has ended in the fallback products
C24_Witness ==
  /\ etsy.pc = "done"
  /\ etsy.requests = 1
  /\ etsy.out = HttpResponse(TRUE, Json(Array(<<GoodListing, ListingWithoutDescription>>)))
  /\ etsy.result = Resolved(FallbackProducts)

\* C29: every modal is taken out of the document by exactly one call of
\* removeChild, no removal throws, and when every opened modal has been closed
\* and no removal is outstanding the body's overflow style is cleared.
C29_ModalRemovedExactlyOnce ==
  /\ \A m \in 1..Len(modals) :
       /\ modals[m].removeCalls <= 1
       /\ ~modals[m].thrown
       /\ (modals[m].removeCalls = 1) <=> ~modals[m].attached
  /\ (/\ modals # <<>>
      /\ \A m \in 1..Len(modals) : ~modals[m].attached /\ modals[m].timers = 0)
       => overflow = ""

\* C30: the button's aria-expanded attribute is "true" exactly when
\* .nav-links carries the class 'open'.
C30_AriaMatchesOpen == (ariaExpanded = "true") <=> navOpen
====
